---- MODULE Spec2Model ----
(***************************************************************************)
(* The ledger engine of the banking application: MemStorage                *)
(* (src/server/storage.ts) and the request handlers that drive it          *)
(* (src/server/routes.ts), with the request schemas of                     *)
(* src/shared/schema.ts.                                                   *)
(*                                                                         *)
(* Every handler is an async function.  It runs without interruption up to *)
(* its next `await`; there any other handler that is ready may run.  The   *)
(* storage methods contain no await of their own (validateUserPassword     *)
(* excepted), so each storage call is one indivisible read or update, made *)
(* in the step that issues the call.  One action of the model is one such  *)
(* run of a handler from one await to the next.  The last continuation of  *)
(* a handler only sends the response, which touches no shared state; it is *)
(* folded into the step before it.                                         *)
(*                                                                         *)
(* Money is a JavaScript number.  The model counts it in thousandths       *)
(* (Milli) and draws request amounts from decimal strings whose values,    *)
(* like every balance they can produce here, are dyadic rationals of small *)
(* magnitude, on which IEEE-754 double addition and comparison are exact.  *)
(***************************************************************************)
EXTENDS Integers, Sequences, FiniteSets, TLC

VARIABLES users, accounts, transactions,
          userIdCounter, accountIdCounter, transactionIdCounter,
          clock, req, response, started

vars == <<users, accounts, transactions,
          userIdCounter, accountIdCounter, transactionIdCounter,
          clock, req, response, started>>

store == <<users, accounts, transactions,
           userIdCounter, accountIdCounter, transactionIdCounter>>

(***************************************************************************)
(* Bounds of the model.                                                    *)
(***************************************************************************)
\* handlers that can be suspended at an await at the same time
MaxInFlight == 2
\* requests received in one behaviour
MaxRequests == 3
\* entries the transactions Map holds before Map.set throws a RangeError
\* (2^24 in V8); the users and accounts Maps are taken to have room
MaxTransactions == 3
\* the latest reading of the millisecond clock
MaxClock == 1

Handlers == 1..MaxInFlight

(***************************************************************************)
(* Values.                                                                 *)
(***************************************************************************)
\* thousandths in one currency unit
Milli == 1000

\* JavaScript `undefined` (a missing Map entry); ids start at 1
undefined == [id |-> 0]

\* JavaScript `null`, for a field that otherwise holds <<value>>
null == <<>>

\* parseFloat's NaN
NaN == <<>>

Num(v) == <<v>>

isNaN(x) == x = NaN

\* Map.prototype.set
MapSet(m, k, v) == [x \in (DOMAIN m) \cup {k} |-> IF x = k THEN v ELSE m[x]]

\* Map.prototype.get
MapGet(m, k) == IF k \in DOMAIN m THEN m[k] ELSE undefined

(***************************************************************************)
(* Request inputs.  A decimal string is the sequence of its characters.    *)
(***************************************************************************)
Emails == {"ann@bank.test", "bob@bank.test"}

Passwords == {"pw-one-1"}

\* what randomBytes(4).toString('hex').toUpperCase() may return
AccountNumbers == {"0A1B2C3D", "4E5F6071", "8293A4B5"}

\* generateAccountNumber, in a run in which no two calls return the same
\* number: what the call made for the account that gets this id returns
FreshNumber(id) == <<"HEX", id>>

Amounts ==
  { <<"5", "0", "0">>, <<"2", "5", "0", "0", ".", "0", "0">>, <<"0">>,
    <<"-", "5", "0", "0">> }

\* a description is the sequence of the pieces it is concatenated from
Descriptions == { <<"rent">>, <<>> }

DigitChars == {"0", "1", "2", "3", "4", "5", "6", "7", "8", "9"}

DigitVal(c) ==
  CASE c = "0" -> 0 [] c = "1" -> 1 [] c = "2" -> 2 [] c = "3" -> 3
    [] c = "4" -> 4 [] c = "5" -> 5 [] c = "6" -> 6 [] c = "7" -> 7
    [] c = "8" -> 8 [] c = "9" -> 9

\* the end of the run of digits of s that starts at position i
RECURSIVE DigitsEnd(_, _)
DigitsEnd(s, i) ==
  IF i <= Len(s) /\ s[i] \in DigitChars THEN DigitsEnd(s, i + 1) ELSE i

\* the value of the digits s[i..j-1] read as a whole number
RECURSIVE WholeValue(_, _, _)
WholeValue(s, i, j) ==
  IF j <= i THEN 0 ELSE WholeValue(s, i, j - 1) * 10 + DigitVal(s[j - 1])

\* the value, in thousandths, of the digits s[i..j-1] read after the point
FractionValue(s, i, j) ==
  LET d(k) == IF i + k < j THEN DigitVal(s[i + k]) ELSE 0
  IN  d(0) * 100 + d(1) * 10 + d(2)

\* parseFloat: the longest prefix [+-] digits [. digits] of s, in
\* thousandths; NaN when that prefix holds no digit
parseFloat(s) ==
  LET signed == Len(s) >= 1 /\ s[1] \in {"-", "+"}
      i0 == IF signed THEN 2 ELSE 1
      i1 == DigitsEnd(s, i0)
      point == i1 <= Len(s) /\ s[i1] = "."
      f0 == i1 + 1
      f1 == IF point THEN DigitsEnd(s, f0) ELSE f0
      magnitude == WholeValue(s, i0, i1) * Milli
                     + (IF point THEN FractionValue(s, f0, f1) ELSE 0)
  IN  IF i1 = i0 /\ f1 = f0 THEN NaN
      ELSE IF signed /\ s[1] = "-" THEN Num(0 - magnitude) ELSE Num(magnitude)

(***************************************************************************)
(* shared/schema.ts: the request schemas.  TRUE when parse accepts.        *)
(***************************************************************************)
\* z.string().min(1).refine(val => !isNaN(parseFloat(val)) && parseFloat(val) > 0)
amountSchema(val) ==
  /\ Len(val) >= 1
  /\ ~isNaN(parseFloat(val))
  /\ parseFloat(val)[1] > 0

depositSchema(body) ==
  /\ amountSchema(body.amount)
  /\ Len(body.description) >= 1

withdrawalSchema(body) ==
  /\ amountSchema(body.amount)
  /\ Len(body.description) >= 1

\* transferSchema without the refinement fromAccountId !== toAccountId
transferSchemaSameAccount(body) ==
  /\ amountSchema(body.amount)
  /\ Len(body.description) >= 1

transferSchema(body) ==
  /\ amountSchema(body.amount)
  /\ Len(body.description) >= 1
  /\ body.fromAccountId # body.toAccountId

\* the email of every body the model sends is a well-formed address
updateProfileSchema(body) ==
  /\ Len(body.firstName) >= 1
  /\ Len(body.lastName) >= 1

changePasswordSchema(body) ==
  /\ Len(body.currentPassword) >= 1
  /\ Len(body.newPassword) >= 8
  /\ Len(body.confirmPassword) >= 1
  /\ body.newPassword = body.confirmPassword

(***************************************************************************)
loginSchema(body) == Len(body.password) >= 1

(* server/storage.ts: MemStorage.  Each method is an operator from the     *)
(* fields it reads to the fields it writes and the value it returns.       *)
(***************************************************************************)
\* createAccount with `this.accountIdCounter` read and not incremented
createAccountNoIncrement(accts, counter, accountData, now) ==
  LET id == counter
      account == [id |-> id, createdAt |-> now] @@ accountData
  IN  [accounts |-> MapSet(accts, id, account),
       accountIdCounter |-> counter,
       account |-> account]

createAccount(accts, counter, accountData, now) ==
  LET id == counter
      account == [id |-> id, createdAt |-> now] @@ accountData
  IN  [accounts |-> MapSet(accts, id, account),
       accountIdCounter |-> counter + 1,
       account |-> account]

getAccountById(id) == MapGet(accounts, id)

\* the accounts of the user, in the Map's insertion order (ascending id)
RECURSIVE ValuesOf(_, _, _)
ValuesOf(m, k, last) ==
  IF k > last THEN <<>>
  ELSE (IF k \in DOMAIN m THEN <<m[k]>> ELSE <<>>) \o ValuesOf(m, k + 1, last)

getAccountsByUserId(userId) ==
  SelectSeq(ValuesOf(accounts, 1, accountIdCounter - 1),
            LAMBDA account : account.userId = userId)

\* updateAccountBalance with the record stored under the id of its owner
updateAccountBalanceWrongKey(accts, id, amount) ==
  LET account == MapGet(accts, id)
  IN  IF account = undefined THEN accts
      ELSE MapSet(accts, account.userId,
                  [account EXCEPT !.balance = account.balance + amount])

\* parseFloat(account.balance.toString()) is the balance: a finite number
\* reads back from its own toString unchanged
updateAccountBalance(accts, id, amount) ==
  LET account == MapGet(accts, id)
  IN  IF account = undefined THEN accts
      ELSE MapSet(accts, id, [account EXCEPT !.balance = account.balance + amount])

\* what updateAccountBalance returns: the record it stored, undefined when
\* there is no account under the id
updatedAccount(accts, id, amount) ==
  MapGet(updateAccountBalance(accts, id, amount), id)

\* createTransaction with `this.transactionIdCounter++` left out: the next
\* entry is stored under the id of the last one
createTransactionNoIncrement(txs, counter, transactionData, now) ==
  LET id == counter
      transaction == [id |-> id, date |-> now] @@ transactionData
      full == Cardinality(DOMAIN txs) >= MaxTransactions
  IN  [transactions |-> IF full THEN txs ELSE MapSet(txs, id, transaction),
       transactionIdCounter |-> counter,
       threw |-> full,
       transaction |-> IF full THEN undefined ELSE transaction]

\* Map.set on a Map that holds MaxTransactions entries throws
createTransaction(txs, counter, transactionData, now) ==
  LET id == counter
      transaction == [id |-> id, date |-> now] @@ transactionData
      full == Cardinality(DOMAIN txs) >= MaxTransactions
  IN  [transactions |-> IF full THEN txs ELSE MapSet(txs, id, transaction),
       transactionIdCounter |-> counter + 1,
       threw |-> full,
       transaction |-> IF full THEN undefined ELSE transaction]

getTransactionById(id) == MapGet(transactions, id)

\* Array.prototype.sort with (a, b) => b.date.getTime() - a.date.getTime():
\* the sort is stable, so t, which comes after the elements of sorted in the
\* array, goes behind every element that is not older than it
RECURSIVE InsertByDate(_, _)
InsertByDate(sorted, t) ==
  IF sorted = <<>> THEN <<t>>
  ELSE IF Head(sorted).date >= t.date
       THEN <<Head(sorted)>> \o InsertByDate(Tail(sorted), t)
       ELSE <<t>> \o sorted

RECURSIVE SortByDate(_)
SortByDate(array) ==
  IF array = <<>> THEN <<>>
  ELSE InsertByDate(SortByDate(SubSeq(array, 1, Len(array) - 1)),
                    array[Len(array)])

\* getTransactionsByUserId without the sort
getTransactionsByUserIdUnsorted(userId) ==
  SelectSeq(ValuesOf(transactions, 1, transactionIdCounter - 1),
            LAMBDA transaction : transaction.userId = userId)

getTransactionsByUserId(userId) ==
  SortByDate(SelectSeq(ValuesOf(transactions, 1, transactionIdCounter - 1),
                       LAMBDA transaction : transaction.userId = userId))

getTransactionsByAccountId(accountId) ==
  SortByDate(SelectSeq(ValuesOf(transactions, 1, transactionIdCounter - 1),
                       LAMBDA transaction : transaction.accountId = accountId))

getUserById(id) == MapGet(users, id)

\* { ...user, ...userData } stored under the id, if the user is there
updateUser(usrs, id, userData) ==
  LET user == MapGet(usrs, id)
  IN  IF user = undefined THEN [users |-> usrs, user |-> undefined]
      ELSE [users |-> MapSet(usrs, id, userData @@ user),
            user |-> userData @@ user]

\* the first user, in insertion order, with this email
getUserByEmail(email) ==
  LET found == SelectSeq(ValuesOf(users, 1, userIdCounter - 1),
                         LAMBDA user : user.email = email)
  IN  IF found = <<>> THEN undefined ELSE Head(found)

\* the user getUserByEmail returns, if it has this password: the comparison
\* after the await is on the object the lookup returned
validateUserPassword(email, password) ==
  LET user == getUserByEmail(email)
  IN  IF user # undefined /\ user.password = password THEN user ELSE undefined

\* createUser without the credit account
createUserNoCredit(userData, numbers, nows) ==
  LET id == userIdCounter
      user == [id |-> id] @@ userData
      c1 == createAccount(accounts, accountIdCounter,
              [userId |-> id, type |-> "checking",
               accountNumber |-> numbers[1], balance |-> 2500 * Milli], nows[1])
      c2 == createAccount(c1.accounts, c1.accountIdCounter,
              [userId |-> id, type |-> "savings",
               accountNumber |-> numbers[2], balance |-> 10000 * Milli], nows[2])
  IN  [users |-> MapSet(users, id, user),
       userIdCounter |-> userIdCounter + 1,
       accounts |-> c2.accounts,
       accountIdCounter |-> c2.accountIdCounter,
       user |-> user]

\* createUser stores the user and then three accounts, without a break
createUser(userData, numbers, nows) ==
  LET id == userIdCounter
      user == [id |-> id] @@ userData
      c1 == createAccount(accounts, accountIdCounter,
              [userId |-> id, type |-> "checking",
               accountNumber |-> numbers[1], balance |-> 2500 * Milli], nows[1])
      c2 == createAccount(c1.accounts, c1.accountIdCounter,
              [userId |-> id, type |-> "savings",
               accountNumber |-> numbers[2], balance |-> 10000 * Milli], nows[2])
      c3 == createAccount(c2.accounts, c2.accountIdCounter,
              [userId |-> id, type |-> "credit",
               accountNumber |-> numbers[3], balance |-> 0], nows[3])
  IN  [users |-> MapSet(users, id, user),
       userIdCounter |-> userIdCounter + 1,
       accounts |-> c3.accounts,
       accountIdCounter |-> c3.accountIdCounter,
       user |-> user]

(***************************************************************************)
(* server/routes.ts: the handlers.  req[h] holds the locals of the handler *)
(* running in slot h.  response is what the step just taken sent with      *)
(* res.status(..).json(..), if it sent anything.                           *)
(***************************************************************************)
NewRequest(kind, userId, body) ==
  [kind |-> kind, pc |-> "start", userId |-> userId, body |-> body,
   fromAccount |-> undefined, toAccount |-> undefined, account |-> undefined,
   existingUser |-> undefined, fromTransaction |-> undefined]

\* a slot whose handler has returned
NoRequest == [NewRequest("none", 0, undefined) EXCEPT !.pc = "done"]

NoResponse ==
  [handler |-> 0, kind |-> "none", userId |-> 0, body |-> undefined,
   status |-> 0, message |-> "", json |-> undefined]

\* res.status(status).json(..) of the handler in slot h
Response(h, q, status, message, json) ==
  [handler |-> h, kind |-> q.kind, userId |-> q.userId, body |-> q.body,
   status |-> status, message |-> message, json |-> json]

\* handleError for a ZodError
ValidationError(h, q) == Response(h, q, 400, "Validation error", undefined)

\* handleError for any other error
InternalError(h, q) == Response(h, q, 500, "Internal server error", undefined)

\* the handler in slot h answers and returns
Return(h, answer) ==
  /\ req' = [req EXCEPT ![h] = NoRequest]
  /\ response' = answer

\* the handler in slot h goes on to its next await with locals q
Await(h, q) ==
  /\ req' = [req EXCEPT ![h] = q]
  /\ response' = NoResponse

\* a request is received into the first slot whose handler has returned
Free(h) ==
  /\ started < MaxRequests
  /\ req[h].pc = "done"
  /\ \A g \in Handlers : g < h => req[g].pc # "done"

\* isAuthenticated: the session of a request names a user that registered
Sessions == DOMAIN users

\* the account ids a request may name: every account and one id not in use
AccountIds == 1..accountIdCounter

Init ==
  /\ users = <<>>
  /\ accounts = <<>>
  /\ transactions = <<>>
  /\ userIdCounter = 1
  /\ accountIdCounter = 1
  /\ transactionIdCounter = 1
  /\ clock = 0
  /\ req = [h \in Handlers |-> NoRequest]
  /\ response = NoResponse
  /\ started = 0

UserData(email, password) ==
  [firstName |-> "Ann", lastName |-> "Lee", email |-> email,
   password |-> password, phone |-> null, address |-> null]

userWithoutPassword(user) ==
  [f \in (DOMAIN user) \ {"password"} |-> user[f]]

\* POST /api/auth/register, up to `await storage.getUserByEmail`
RegisterStart(h, userData) ==
  /\ Free(h)
  /\ started' = started + 1
  /\ Await(h, [NewRequest("register", 0, userData) EXCEPT
                 !.pc = "lookedUp",
                 !.existingUser = getUserByEmail(userData.email)])
  /\ UNCHANGED <<store, clock>>

\* RegisterCreate without the test of existingUser
RegisterCreateUnchecked(h, numbers, nows) ==
  LET q == req[h]
      c == createUser(q.body, numbers, nows)
  IN  /\ q.kind = "register" /\ q.pc = "lookedUp"
      /\ users' = c.users
      /\ userIdCounter' = c.userIdCounter
      /\ accounts' = c.accounts
      /\ accountIdCounter' = c.accountIdCounter
      /\ clock' = nows[3]
      /\ Return(h, Response(h, q, 201, "", userWithoutPassword(c.user)))
      /\ UNCHANGED <<transactions, transactionIdCounter, started>>

\* ... from there to the response
RegisterCreate(h, numbers, nows) ==
  LET q == req[h]
      c == createUser(q.body, numbers, nows)
  IN  /\ q.kind = "register" /\ q.pc = "lookedUp"
      /\ IF q.existingUser # undefined
         THEN /\ Return(h, Response(h, q, 400,
                   "User with this email already exists", undefined))
              /\ UNCHANGED <<store, clock>>
         ELSE /\ users' = c.users
              /\ userIdCounter' = c.userIdCounter
              /\ accounts' = c.accounts
              /\ accountIdCounter' = c.accountIdCounter
              /\ clock' = nows[3]
              /\ Return(h, Response(h, q, 201, "", userWithoutPassword(c.user)))
              /\ UNCHANGED <<transactions, transactionIdCounter>>
      /\ UNCHANGED started

\* POST /api/transactions/deposit, up to `await storage.getAccountById`
DepositStart(h, userId, body) ==
  LET q == NewRequest("deposit", userId, body)
  IN  /\ Free(h)
      /\ started' = started + 1
      /\ IF ~depositSchema(body)
         THEN Return(h, ValidationError(h, q))
         ELSE Await(h, [q EXCEPT !.pc = "resolved",
                                 !.account = getAccountById(body.accountId)])
      /\ UNCHANGED <<store, clock>>

\* DepositUpdate with the new balance computed from the account as it was
\* read before the await
DepositUpdateStale(h) ==
  LET q == req[h]
      account == q.account
      amount == parseFloat(q.body.amount)[1]
  IN  /\ q.kind = "deposit" /\ q.pc = "resolved"
      /\ IF account = undefined \/ account.userId # q.userId
         THEN /\ Return(h, Response(h, q, 403,
                   "You don't have permission to access this account", undefined))
              /\ UNCHANGED accounts
         ELSE /\ accounts' = MapSet(accounts, account.id,
                   [account EXCEPT !.balance = account.balance + amount])
              /\ Await(h, [q EXCEPT !.pc = "updated"])
      /\ UNCHANGED <<users, transactions, userIdCounter, accountIdCounter,
                     transactionIdCounter, clock, started>>

\* DepositUpdate with the entry written before the balance is updated: the
\* step appends the entry and leaves the balance to the next one
DepositUpdateLedgerFirst(h) ==
  LET q == req[h]
      account == q.account
      amount == parseFloat(q.body.amount)[1]
      c == createTransaction(transactions, transactionIdCounter,
             [userId |-> q.userId, accountId |-> q.body.accountId,
              type |-> "deposit", amount |-> amount,
              description |-> q.body.description, toAccountId |-> null], clock)
  IN  /\ q.kind = "deposit" /\ q.pc = "resolved"
      /\ IF account = undefined \/ account.userId # q.userId
         THEN /\ Return(h, Response(h, q, 403,
                   "You don't have permission to access this account", undefined))
              /\ UNCHANGED <<transactions, transactionIdCounter>>
         ELSE /\ transactions' = c.transactions
              /\ transactionIdCounter' = c.transactionIdCounter
              /\ Await(h, [q EXCEPT !.pc = "updated"])
      /\ UNCHANGED <<users, accounts, userIdCounter, accountIdCounter, clock,
                     started>>

\* ... from there to `await storage.updateAccountBalance`
DepositUpdate(h) ==
  LET q == req[h]
      account == q.account
      amount == parseFloat(q.body.amount)[1]
  IN  /\ q.kind = "deposit" /\ q.pc = "resolved"
      /\ IF account = undefined \/ account.userId # q.userId
         THEN /\ Return(h, Response(h, q, 403,
                   "You don't have permission to access this account", undefined))
              /\ UNCHANGED accounts
         ELSE /\ accounts' = updateAccountBalance(accounts, account.id, amount)
              /\ Await(h, [q EXCEPT !.pc = "updated"])
      /\ UNCHANGED <<users, transactions, userIdCounter, accountIdCounter,
                     transactionIdCounter, clock, started>>

\* ... from there to the response
DepositRecord(h, now) ==
  LET q == req[h]
      amount == parseFloat(q.body.amount)[1]
      c == createTransaction(transactions, transactionIdCounter,
             [userId |-> q.userId, accountId |-> q.account.id, type |-> "deposit",
              amount |-> amount, description |-> q.body.description,
              toAccountId |-> null], now)
  IN  /\ q.kind = "deposit" /\ q.pc = "updated"
      /\ clock' = now
      /\ transactions' = c.transactions
      /\ transactionIdCounter' = c.transactionIdCounter
      /\ Return(h, IF c.threw THEN InternalError(h, q)
                   ELSE Response(h, q, 200, "", c.transaction))
      /\ UNCHANGED <<users, accounts, userIdCounter, accountIdCounter, started>>

\* POST /api/transactions/withdrawal, up to `await storage.getAccountById`
WithdrawalStart(h, userId, body) ==
  LET q == NewRequest("withdrawal", userId, body)
  IN  /\ Free(h)
      /\ started' = started + 1
      /\ IF ~withdrawalSchema(body)
         THEN Return(h, ValidationError(h, q))
         ELSE Await(h, [q EXCEPT !.pc = "resolved",
                                 !.account = getAccountById(body.accountId)])
      /\ UNCHANGED <<store, clock>>

\* WithdrawalUpdate with the funds check written `<=`
WithdrawalUpdateStrict(h) ==
  LET q == req[h]
      account == q.account
      amount == parseFloat(q.body.amount)[1]
  IN  /\ q.kind = "withdrawal" /\ q.pc = "resolved"
      /\ IF account = undefined \/ account.userId # q.userId
         THEN /\ Return(h, Response(h, q, 403,
                   "You don't have permission to access this account", undefined))
              /\ UNCHANGED accounts
         ELSE IF account.type # "credit" /\ account.balance <= amount
         THEN /\ Return(h, Response(h, q, 400, "Insufficient funds", undefined))
              /\ UNCHANGED accounts
         ELSE /\ accounts' = updateAccountBalance(accounts, account.id, 0 - amount)
              /\ Await(h, [q EXCEPT !.pc = "updated"])
      /\ UNCHANGED <<users, transactions, userIdCounter, accountIdCounter,
                     transactionIdCounter, clock, started>>

\* WithdrawalUpdate with the funds check made for every account type
WithdrawalUpdateNoExemption(h) ==
  LET q == req[h]
      account == q.account
      amount == parseFloat(q.body.amount)[1]
  IN  /\ q.kind = "withdrawal" /\ q.pc = "resolved"
      /\ IF account = undefined \/ account.userId # q.userId
         THEN /\ Return(h, Response(h, q, 403,
                   "You don't have permission to access this account", undefined))
              /\ UNCHANGED accounts
         ELSE IF account.balance < amount
         THEN /\ Return(h, Response(h, q, 400, "Insufficient funds", undefined))
              /\ UNCHANGED accounts
         ELSE /\ accounts' = updateAccountBalance(accounts, account.id, 0 - amount)
              /\ Await(h, [q EXCEPT !.pc = "updated"])
      /\ UNCHANGED <<users, transactions, userIdCounter, accountIdCounter,
                     transactionIdCounter, clock, started>>

\* ... from there to `await storage.updateAccountBalance`
WithdrawalUpdate(h) ==
  LET q == req[h]
      account == q.account
      amount == parseFloat(q.body.amount)[1]
  IN  /\ q.kind = "withdrawal" /\ q.pc = "resolved"
      /\ IF account = undefined \/ account.userId # q.userId
         THEN /\ Return(h, Response(h, q, 403,
                   "You don't have permission to access this account", undefined))
              /\ UNCHANGED accounts
         ELSE IF account.type # "credit" /\ account.balance < amount
         THEN /\ Return(h, Response(h, q, 400, "Insufficient funds", undefined))
              /\ UNCHANGED accounts
         ELSE /\ accounts' = updateAccountBalance(accounts, account.id, 0 - amount)
              /\ Await(h, [q EXCEPT !.pc = "updated"])
      /\ UNCHANGED <<users, transactions, userIdCounter, accountIdCounter,
                     transactionIdCounter, clock, started>>

\* WithdrawalRecord with the amount recorded unsigned
WithdrawalRecordUnsigned(h, now) ==
  LET q == req[h]
      amount == parseFloat(q.body.amount)[1]
      c == createTransaction(transactions, transactionIdCounter,
             [userId |-> q.userId, accountId |-> q.account.id,
              type |-> "withdrawal", amount |-> amount,
              description |-> q.body.description, toAccountId |-> null], now)
  IN  /\ q.kind = "withdrawal" /\ q.pc = "updated"
      /\ clock' = now
      /\ transactions' = c.transactions
      /\ transactionIdCounter' = c.transactionIdCounter
      /\ Return(h, IF c.threw THEN InternalError(h, q)
                   ELSE Response(h, q, 200, "", c.transaction))
      /\ UNCHANGED <<users, accounts, userIdCounter, accountIdCounter, started>>

\* ... from there to the response
WithdrawalRecord(h, now) ==
  LET q == req[h]
      amount == parseFloat(q.body.amount)[1]
      c == createTransaction(transactions, transactionIdCounter,
             [userId |-> q.userId, accountId |-> q.account.id,
              type |-> "withdrawal", amount |-> 0 - amount,
              description |-> q.body.description, toAccountId |-> null], now)
  IN  /\ q.kind = "withdrawal" /\ q.pc = "updated"
      /\ clock' = now
      /\ transactions' = c.transactions
      /\ transactionIdCounter' = c.transactionIdCounter
      /\ Return(h, IF c.threw THEN InternalError(h, q)
                   ELSE Response(h, q, 200, "", c.transaction))
      /\ UNCHANGED <<users, accounts, userIdCounter, accountIdCounter, started>>

\* POST /api/transactions/transfer, up to the first `await storage.getAccountById`
TransferStart(h, userId, body) ==
  LET q == NewRequest("transfer", userId, body)
  IN  /\ Free(h)
      /\ started' = started + 1
      /\ IF ~transferSchema(body)
         THEN Return(h, ValidationError(h, q))
         ELSE Await(h, [q EXCEPT !.pc = "gotFrom",
                          !.fromAccount = getAccountById(body.fromAccountId)])
      /\ UNCHANGED <<store, clock>>

\* ... from there to the second `await storage.getAccountById`
TransferResolve(h) ==
  LET q == req[h]
  IN  /\ q.kind = "transfer" /\ q.pc = "gotFrom"
      /\ Await(h, [q EXCEPT !.pc = "gotTo",
                            !.toAccount = getAccountById(q.body.toAccountId)])
      /\ UNCHANGED <<store, clock, started>>

\* TransferDebit with the funds check made before the ownership check
TransferDebitFundsFirst(h) ==
  LET q == req[h]
      fromAccount == q.fromAccount
      toAccount == q.toAccount
      amount == parseFloat(q.body.amount)[1]
  IN  /\ q.kind = "transfer" /\ q.pc = "gotTo"
      /\ IF fromAccount # undefined /\ fromAccount.balance < amount
         THEN /\ Return(h, Response(h, q, 400, "Insufficient funds", undefined))
              /\ UNCHANGED accounts
         ELSE IF fromAccount = undefined \/ fromAccount.userId # q.userId
         THEN /\ Return(h, Response(h, q, 403,
                   "You don't have permission to access this account", undefined))
              /\ UNCHANGED accounts
         ELSE IF toAccount = undefined
         THEN /\ Return(h, Response(h, q, 404,
                   "Destination account not found", undefined))
              /\ UNCHANGED accounts
         ELSE /\ accounts' = updateAccountBalance(accounts, fromAccount.id, 0 - amount)
              /\ Await(h, [q EXCEPT !.pc = "debited"])
      /\ UNCHANGED <<users, transactions, userIdCounter, accountIdCounter,
                     transactionIdCounter, clock, started>>

\* TransferDebit with the source debited before the destination is looked at
TransferDebitThenDestination(h) ==
  LET q == req[h]
      fromAccount == q.fromAccount
      toAccount == q.toAccount
      amount == parseFloat(q.body.amount)[1]
  IN  /\ q.kind = "transfer" /\ q.pc = "gotTo"
      /\ IF fromAccount = undefined \/ fromAccount.userId # q.userId
         THEN /\ Return(h, Response(h, q, 403,
                   "You don't have permission to access this account", undefined))
              /\ UNCHANGED accounts
         ELSE IF fromAccount.balance < amount
         THEN /\ Return(h, Response(h, q, 400, "Insufficient funds", undefined))
              /\ UNCHANGED accounts
         ELSE /\ accounts' = updateAccountBalance(accounts, fromAccount.id, 0 - amount)
              /\ IF toAccount = undefined
                 THEN Return(h, Response(h, q, 404,
                        "Destination account not found", undefined))
                 ELSE Await(h, [q EXCEPT !.pc = "debited"])
      /\ UNCHANGED <<users, transactions, userIdCounter, accountIdCounter,
                     transactionIdCounter, clock, started>>

\* ... from there to `await storage.updateAccountBalance(fromAccount.id, -amount)`
TransferDebit(h) ==
  LET q == req[h]
      fromAccount == q.fromAccount
      toAccount == q.toAccount
      amount == parseFloat(q.body.amount)[1]
  IN  /\ q.kind = "transfer" /\ q.pc = "gotTo"
      /\ IF fromAccount = undefined \/ fromAccount.userId # q.userId
         THEN /\ Return(h, Response(h, q, 403,
                   "You don't have permission to access this account", undefined))
              /\ UNCHANGED accounts
         ELSE IF toAccount = undefined
         THEN /\ Return(h, Response(h, q, 404,
                   "Destination account not found", undefined))
              /\ UNCHANGED accounts
         ELSE IF fromAccount.balance < amount
         THEN /\ Return(h, Response(h, q, 400, "Insufficient funds", undefined))
              /\ UNCHANGED accounts
         ELSE /\ accounts' = updateAccountBalance(accounts, fromAccount.id, 0 - amount)
              /\ Await(h, [q EXCEPT !.pc = "debited"])
      /\ UNCHANGED <<users, transactions, userIdCounter, accountIdCounter,
                     transactionIdCounter, clock, started>>

\* TransferCredit with the credit posted to the source account
TransferCreditToSource(h) ==
  LET q == req[h]
      amount == parseFloat(q.body.amount)[1]
  IN  /\ q.kind = "transfer" /\ q.pc = "debited"
      /\ accounts' = updateAccountBalance(accounts, q.fromAccount.id, amount)
      /\ Await(h, [q EXCEPT !.pc = "credited"])
      /\ UNCHANGED <<users, transactions, userIdCounter, accountIdCounter,
                     transactionIdCounter, clock, started>>

\* TransferCredit that takes the destination account for itself first: it
\* waits while another transfer that has debited that account is on its way
TransferCreditWaits(h) ==
  LET q == req[h]
      amount == parseFloat(q.body.amount)[1]
  IN  /\ q.kind = "transfer" /\ q.pc = "debited"
      /\ \A g \in Handlers \ {h} :
           ~ /\ req[g].kind = "transfer" /\ req[g].pc = "debited"
             /\ req[g].body.fromAccountId = q.body.toAccountId
      /\ accounts' = updateAccountBalance(accounts, q.toAccount.id, amount)
      /\ Await(h, [q EXCEPT !.pc = "credited"])
      /\ UNCHANGED <<users, transactions, userIdCounter, accountIdCounter,
                     transactionIdCounter, clock, started>>

\* ... from there to `await storage.updateAccountBalance(toAccount.id, amount)`
TransferCredit(h) ==
  LET q == req[h]
      amount == parseFloat(q.body.amount)[1]
  IN  /\ q.kind = "transfer" /\ q.pc = "debited"
      /\ accounts' = updateAccountBalance(accounts, q.toAccount.id, amount)
      /\ Await(h, [q EXCEPT !.pc = "credited"])
      /\ UNCHANGED <<users, transactions, userIdCounter, accountIdCounter,
                     transactionIdCounter, clock, started>>

\* ... from there to the first `await storage.createTransaction`
TransferRecordDebit(h, now) ==
  LET q == req[h]
      amount == parseFloat(q.body.amount)[1]
      c == createTransaction(transactions, transactionIdCounter,
             [userId |-> q.userId, accountId |-> q.fromAccount.id,
              type |-> "transfer", amount |-> 0 - amount,
              description |-> q.body.description,
              toAccountId |-> <<q.toAccount.id>>], now)
  IN  /\ q.kind = "transfer" /\ q.pc = "credited"
      /\ clock' = now
      /\ transactions' = c.transactions
      /\ transactionIdCounter' = c.transactionIdCounter
      /\ IF c.threw THEN Return(h, InternalError(h, q))
         ELSE Await(h, [q EXCEPT !.pc = "recorded",
                                 !.fromTransaction = c.transaction])
      /\ UNCHANGED <<users, accounts, userIdCounter, accountIdCounter, started>>

\* TransferRecordCredit with the caller as the user of the credit entry
TransferRecordCreditToCaller(h, now) ==
  LET q == req[h]
      amount == parseFloat(q.body.amount)[1]
      c == createTransaction(transactions, transactionIdCounter,
             [userId |-> q.userId, accountId |-> q.toAccount.id,
              type |-> "transfer", amount |-> amount,
              description |-> <<"Transfer from account ", q.fromAccount.accountNumber>>,
              toAccountId |-> null], now)
  IN  /\ q.kind = "transfer" /\ q.pc = "recorded"
      /\ clock' = now
      /\ transactions' = c.transactions
      /\ transactionIdCounter' = c.transactionIdCounter
      /\ Return(h, IF c.threw THEN InternalError(h, q)
                   ELSE Response(h, q, 200, "", q.fromTransaction))
      /\ UNCHANGED <<users, accounts, userIdCounter, accountIdCounter, started>>

\* ... from there to the response
TransferRecordCredit(h, now) ==
  LET q == req[h]
      amount == parseFloat(q.body.amount)[1]
      c == createTransaction(transactions, transactionIdCounter,
             [userId |-> q.toAccount.userId, accountId |-> q.toAccount.id,
              type |-> "transfer", amount |-> amount,
              description |-> <<"Transfer from account ", q.fromAccount.accountNumber>>,
              toAccountId |-> null], now)
  IN  /\ q.kind = "transfer" /\ q.pc = "recorded"
      /\ clock' = now
      /\ transactions' = c.transactions
      /\ transactionIdCounter' = c.transactionIdCounter
      /\ Return(h, IF c.threw THEN InternalError(h, q)
                   ELSE Response(h, q, 200, "", q.fromTransaction))
      /\ UNCHANGED <<users, accounts, userIdCounter, accountIdCounter, started>>

\* GET /api/accounts: the accounts are read before the await, sent after it
ListAccounts(h, userId) ==
  LET q == NewRequest("listAccounts", userId, undefined)
  IN  /\ Free(h)
      /\ started' = started + 1
      /\ Return(h, Response(h, q, 200, "", getAccountsByUserId(userId)))
      /\ UNCHANGED <<store, clock>>

(***************************************************************************)
(* The environment of Spec: the clock stands still while the requests run  *)
(* (they all fall in one millisecond) and generateAccountNumber never      *)
(* returns the same number twice.                                          *)
(***************************************************************************)
FreshNumbers == [i \in 1..3 |-> FreshNumber(accountIdCounter + i - 1)]

SameInstant == [i \in 1..3 |-> clock]

DepositBodies ==
  [accountId : AccountIds, amount : Amounts, description : Descriptions]

TransferBodies ==
  [fromAccountId : AccountIds, toAccountId : AccountIds,
   amount : Amounts, description : Descriptions]

Next ==
  \/ \E h \in Handlers, email \in Emails, password \in Passwords :
       RegisterStart(h, UserData(email, password))
  \/ \E h \in Handlers : RegisterCreate(h, FreshNumbers, SameInstant)
  \/ \E h \in Handlers, userId \in Sessions, body \in DepositBodies :
       DepositStart(h, userId, body)
  \/ \E h \in Handlers : DepositUpdate(h)
  \/ \E h \in Handlers : DepositRecord(h, clock)
  \/ \E h \in Handlers, userId \in Sessions, body \in DepositBodies :
       WithdrawalStart(h, userId, body)
  \/ \E h \in Handlers : WithdrawalUpdate(h)
  \/ \E h \in Handlers : WithdrawalRecord(h, clock)
  \/ \E h \in Handlers, userId \in Sessions, body \in TransferBodies :
       TransferStart(h, userId, body)
  \/ \E h \in Handlers : TransferResolve(h)
  \/ \E h \in Handlers : TransferDebit(h)
  \/ \E h \in Handlers : TransferCredit(h)
  \/ \E h \in Handlers : TransferRecordDebit(h, clock)
  \/ \E h \in Handlers : TransferRecordCredit(h, clock)
  \/ \E h \in Handlers, userId \in Sessions : ListAccounts(h, userId)

Spec == Init /\ [][Next]_vars

(***************************************************************************)
(* SpecUsers: the handlers that create, change and authenticate users.     *)
(***************************************************************************)
\* PUT /api/profile
UpdateProfile(h, userId, body) ==
  LET q == NewRequest("updateProfile", userId, body)
      c == updateUser(users, userId, body)
  IN  /\ Free(h)
      /\ started' = started + 1
      /\ IF ~updateProfileSchema(body)
         THEN /\ Return(h, ValidationError(h, q))
              /\ UNCHANGED users
         ELSE IF c.user = undefined
         THEN /\ Return(h, Response(h, q, 404, "User not found", undefined))
              /\ UNCHANGED users
         ELSE /\ users' = c.users
              /\ Return(h, Response(h, q, 200, "", userWithoutPassword(c.user)))
      /\ UNCHANGED <<accounts, transactions, userIdCounter, accountIdCounter,
                     transactionIdCounter, clock>>

\* PUT /api/profile/password, up to `await storage.getUserById`
ChangePasswordStart(h, userId, body) ==
  LET q == NewRequest("changePassword", userId, body)
  IN  /\ Free(h)
      /\ started' = started + 1
      /\ IF ~changePasswordSchema(body)
         THEN Return(h, ValidationError(h, q))
         ELSE Await(h, [q EXCEPT !.pc = "gotUser",
                                 !.existingUser = getUserById(userId)])
      /\ UNCHANGED <<store, clock>>

\* ChangePasswordUpdate without the comparison with currentPassword
ChangePasswordUpdateUnverified(h) ==
  LET q == req[h]
      user == q.existingUser
      c == updateUser(users, q.userId, [password |-> q.body.newPassword])
  IN  /\ q.kind = "changePassword" /\ q.pc = "gotUser"
      /\ IF user = undefined
         THEN /\ Return(h, Response(h, q, 404, "User not found", undefined))
              /\ UNCHANGED users
         ELSE /\ users' = c.users
              /\ Return(h, Response(h, q, 200,
                   "Password updated successfully", undefined))
      /\ UNCHANGED <<accounts, transactions, userIdCounter, accountIdCounter,
                     transactionIdCounter, clock, started>>

\* ... from there to the response
ChangePasswordUpdate(h) ==
  LET q == req[h]
      user == q.existingUser
      c == updateUser(users, q.userId, [password |-> q.body.newPassword])
  IN  /\ q.kind = "changePassword" /\ q.pc = "gotUser"
      /\ IF user = undefined
         THEN /\ Return(h, Response(h, q, 404, "User not found", undefined))
              /\ UNCHANGED users
         ELSE IF user.password # q.body.currentPassword
         THEN /\ Return(h, Response(h, q, 400,
                   "Current password is incorrect", undefined))
              /\ UNCHANGED users
         ELSE /\ users' = c.users
              /\ Return(h, Response(h, q, 200,
                   "Password updated successfully", undefined))
      /\ UNCHANGED <<accounts, transactions, userIdCounter, accountIdCounter,
                     transactionIdCounter, clock, started>>

\* POST /api/auth/login, up to the await in storage.validateUserPassword
LoginStart(h, body) ==
  LET q == NewRequest("login", 0, body)
  IN  /\ Free(h)
      /\ started' = started + 1
      /\ IF ~loginSchema(body)
         THEN Return(h, ValidationError(h, q))
         ELSE Await(h, [q EXCEPT !.pc = "validated",
                                 !.existingUser =
                                   validateUserPassword(body.email, body.password)])
      /\ UNCHANGED <<store, clock>>

\* ... from there to the response
LoginAnswer(h) ==
  LET q == req[h]
      user == q.existingUser
  IN  /\ q.kind = "login" /\ q.pc = "validated"
      /\ Return(h, IF user = undefined
                   THEN Response(h, q, 401, "Invalid email or password", undefined)
                   ELSE Response(h, q, 200, "", userWithoutPassword(user)))
      /\ UNCHANGED <<store, clock, started>>

\* the passwords of the register requests of SpecUsers
RegisterPasswords == {"pw-one-1", "pw-two-22"}

LoginBodies == [email : Emails, password : {"pw-one-1", "pw-two-22", ""}]

ProfileBodies == [firstName : {"Anna", ""}, lastName : {"Lee"}, email : Emails]

ChangePasswordBodies ==
  [currentPassword : {"pw-one-1", "pw-two-22"},
   newPassword : {"pw-two-22", "short"},
   confirmPassword : {"pw-two-22"}]

NextUsers ==
  \/ \E h \in Handlers, email \in Emails, password \in RegisterPasswords :
       RegisterStart(h, UserData(email, password))
  \/ \E h \in Handlers : RegisterCreate(h, FreshNumbers, SameInstant)
  \/ \E h \in Handlers, userId \in Sessions, body \in ProfileBodies :
       UpdateProfile(h, userId, body)
  \/ \E h \in Handlers, userId \in Sessions, body \in ChangePasswordBodies :
       ChangePasswordStart(h, userId, body)
  \/ \E h \in Handlers : ChangePasswordUpdate(h)
  \/ \E h \in Handlers, body \in LoginBodies : LoginStart(h, body)
  \/ \E h \in Handlers : LoginAnswer(h)

SpecUsers == Init /\ [][NextUsers]_vars

(***************************************************************************)
(* SpecNumbers: registrations in which generateAccountNumber may return a  *)
(* number it has returned before.                                          *)
(***************************************************************************)
NextNumbers ==
  \/ \E h \in Handlers, email \in Emails, password \in Passwords :
       RegisterStart(h, UserData(email, password))
  \/ \E h \in Handlers, numbers \in [1..3 -> AccountNumbers] :
       RegisterCreate(h, numbers, SameInstant)

SpecNumbers == Init /\ [][NextNumbers]_vars

(***************************************************************************)
(* SpecLedger: the ledger methods of MemStorage called one after another,  *)
(* as the handlers call them, with entries of two users on two accounts.   *)
(* new Date() reads the wall clock, which may stand still from one call to *)
(* the next and may have been set back.                                    *)
(***************************************************************************)
Readings == 0..MaxClock

LedgerUserIds == 1..2

LedgerAccountIds == 1..2

\* what a storage method called outside a handler returned
Returned(method, userId, body, result) ==
  [handler |-> 0, kind |-> method, userId |-> userId, body |-> body,
   status |-> 0, message |-> "", json |-> result]

\* storage.createTransaction(..); at most one call finds the Map full
CreateTransaction(userId, accountId, now) ==
  LET c == createTransaction(transactions, transactionIdCounter,
             [userId |-> userId, accountId |-> accountId, type |-> "deposit",
              amount |-> 500 * Milli, description |-> <<"rent">>,
              toAccountId |-> null], now)
  IN  /\ transactionIdCounter <= MaxTransactions + 1
      /\ transactions' = c.transactions
      /\ transactionIdCounter' = c.transactionIdCounter
      /\ clock' = now
      /\ response' = NoResponse
      /\ UNCHANGED <<users, accounts, userIdCounter, accountIdCounter,
                     req, started>>

\* storage.getTransactionsByUserId(userId)
GetTransactionsByUserId(userId) ==
  /\ response' = Returned("getTransactionsByUserId", userId, undefined,
                          getTransactionsByUserId(userId))
  /\ UNCHANGED <<store, clock, req, started>>

\* storage.getTransactionsByAccountId(accountId)
GetTransactionsByAccountId(accountId) ==
  /\ response' = Returned("getTransactionsByAccountId", 0,
                          [accountId |-> accountId],
                          getTransactionsByAccountId(accountId))
  /\ UNCHANGED <<store, clock, req, started>>

NextLedger ==
  \/ \E userId \in LedgerUserIds, accountId \in LedgerAccountIds,
         now \in Readings : CreateTransaction(userId, accountId, now)
  \/ \E userId \in LedgerUserIds : GetTransactionsByUserId(userId)
  \/ \E accountId \in LedgerAccountIds : GetTransactionsByAccountId(accountId)

SpecLedger == Init /\ [][NextLedger]_vars

(***************************************************************************)
(* SpecAccounts: the handlers of Spec, and storage.updateAccountBalance    *)
(* called on its own, as a handler calls it, with any id, the id of no     *)
(* account included.  A call counts as a request.                          *)
(***************************************************************************)
BalanceChanges == {500 * Milli, -500 * Milli}

\* storage.updateAccountBalance(id, amount)
UpdateAccountBalance(id, amount) ==
  /\ started < MaxRequests
  /\ started' = started + 1
  /\ accounts' = updateAccountBalance(accounts, id, amount)
  /\ response' = Returned("updateAccountBalance", 0,
                          [accountId |-> id, amount |-> amount],
                          updatedAccount(accounts, id, amount))
  /\ UNCHANGED <<users, transactions, userIdCounter, accountIdCounter,
                 transactionIdCounter, clock, req>>

NextAccounts ==
  \/ Next
  \/ \E id \in AccountIds, amount \in BalanceChanges :
       UpdateAccountBalance(id, amount)

SpecAccounts == Init /\ [][NextAccounts]_vars

(***************************************************************************)
(* SpecDecimals: registrations, deposits and withdrawals whose amount may  *)
(* have three digits after the point.                                      *)
(***************************************************************************)
DecimalAmounts == { <<"0", ".", "0", "0", "5">>, <<"5", "0", "0">> }

DecimalBodies ==
  [accountId : AccountIds, amount : DecimalAmounts, description : {<<"rent">>}]

NextDecimals ==
  \/ \E h \in Handlers, email \in Emails, password \in Passwords :
       RegisterStart(h, UserData(email, password))
  \/ \E h \in Handlers : RegisterCreate(h, FreshNumbers, SameInstant)
  \/ \E h \in Handlers, userId \in Sessions, body \in DecimalBodies :
       DepositStart(h, userId, body)
  \/ \E h \in Handlers : DepositUpdate(h)
  \/ \E h \in Handlers : DepositRecord(h, clock)
  \/ \E h \in Handlers, userId \in Sessions, body \in DecimalBodies :
       WithdrawalStart(h, userId, body)
  \/ \E h \in Handlers : WithdrawalUpdate(h)
  \/ \E h \in Handlers : WithdrawalRecord(h, clock)

SpecDecimals == Init /\ [][NextDecimals]_vars

(***************************************************************************)
(* SpecFair: the handlers that move money, with the scheduling of the      *)
(* event loop.  A handler                                                  *)
(* suspended at an await of a MemStorage method is resumed: the promise is *)
(* already resolved, and the continuation is in the microtask queue, which *)
(* the loop drains.                                                        *)
(***************************************************************************)
\* the handler in slot h is resumed after its await
Continue(h) ==
  \/ RegisterCreate(h, FreshNumbers, SameInstant)
  \/ DepositUpdate(h)
  \/ DepositRecord(h, clock)
  \/ WithdrawalUpdate(h)
  \/ WithdrawalRecord(h, clock)
  \/ TransferResolve(h)
  \/ TransferDebit(h)
  \/ TransferCredit(h)
  \/ TransferRecordDebit(h, clock)
  \/ TransferRecordCredit(h, clock)

\* the requests of SpecFair: the checking and the savings account of the
\* first user, one amount, one description
FairAccountIds == 1..2

FairDepositBodies ==
  [accountId : FairAccountIds, amount : {<<"5", "0", "0">>},
   description : {<<"rent">>}]

FairTransferBodies ==
  [fromAccountId : FairAccountIds, toAccountId : FairAccountIds,
   amount : {<<"5", "0", "0">>}, description : {<<"rent">>}]

NextFair ==
  \/ \E h \in Handlers, email \in Emails, password \in Passwords :
       RegisterStart(h, UserData(email, password))
  \/ \E h \in Handlers, userId \in Sessions, body \in FairDepositBodies :
       DepositStart(h, userId, body)
  \/ \E h \in Handlers, userId \in Sessions, body \in FairDepositBodies :
       WithdrawalStart(h, userId, body)
  \/ \E h \in Handlers, userId \in Sessions, body \in FairTransferBodies :
       TransferStart(h, userId, body)
  \/ \E h \in Handlers : Continue(h)

SpecFair ==
  Init /\ [][NextFair]_vars /\ \A h \in Handlers : WF_vars(Continue(h))

(***************************************************************************)
(* Properties.                                                             *)
(***************************************************************************)
\* the handler in slot h takes the step
Acts(h) == req'[h] # req[h] \/ response'.handler = h

\* the handler in slot h answers in the step
Answers(h, kind) == response'.handler = h /\ response'.kind = kind

\* no handler is suspended at an await
Quiescent == \A h \in Handlers : req[h].pc = "done"

\* C1: every transfer that is answered 200 has debited its source account S
\* by exactly its amount a in one step and credited its destination D by
\* exactly a in another, each step changing no other balance, and no other
\* step of a transfer changes any balance: the transfer leaves the sum of all
\* balances as it would be without it.
C1_TransferConserves ==
  [][\A h \in Handlers :
       LET q == req[h]
           a == parseFloat(q.body.amount)[1]
           S == q.body.fromAccountId
           D == q.body.toAccountId
       IN  (q.kind = "transfer" /\ Acts(h)) =>
             /\ req'[h].pc = "debited" =>
                  /\ q.pc = "gotTo"
                  /\ accounts' = [accounts EXCEPT ![S].balance = @ - a]
             /\ req'[h].pc = "credited" =>
                  /\ q.pc = "debited"
                  /\ accounts' = [accounts EXCEPT ![D].balance = @ + a]
             /\ req'[h].pc \notin {"debited", "credited"} => accounts' = accounts
             /\ (Answers(h, "transfer") /\ response'.status = 200) =>
                  q.pc = "recorded"
    ]_vars

\* C1 witness: the transfer of 500.00 from checking account 1 (2500.00) to
\* savings account 2 (10000.00) is answered 200 with the balances at 2000.00
\* and 10500.00.
C1_Witness ==
  /\ response.kind = "transfer" /\ response.status = 200
  /\ response.body.fromAccountId = 1 /\ response.body.toAccountId = 2
  /\ response.body.amount = <<"5", "0", "0">>
  /\ accounts[1].balance = 2000 * Milli
  /\ accounts[2].balance = 10500 * Milli

\* C2: no listing of accounts is answered while a transfer has debited its
\* source and not yet credited its destination, with one of the two accounts
\* in the listing.
C2_TransferAtomicVisibility ==
  \A h \in Handlers :
    (response.kind = "listAccounts" /\ response.status = 200) =>
      ~ /\ req[h].kind = "transfer"
        /\ req[h].pc = "debited"
        /\ \E i \in 1..Len(response.json) :
             response.json[i].id \in {req[h].body.fromAccountId,
                                      req[h].body.toAccountId}

\* C3: a transfer that is answered 500 after its first balance update has,
\* by the time it answers, put back both balances and left none of its
\* entries in the ledger.
C3_TransferCompensates ==
  [][\A h \in Handlers :
       LET q == req[h]
           a == parseFloat(q.body.amount)[1]
           S == q.body.fromAccountId
           D == q.body.toAccountId
       IN  (q.kind = "transfer" /\ Answers(h, "transfer")
              /\ response'.status = 500) =>
             /\ accounts' = [accounts EXCEPT ![S].balance = @ + a,
                                             ![D].balance = @ - a]
             /\ q.fromTransaction # undefined =>
                  q.fromTransaction.id \notin DOMAIN transactions'
    ]_vars

\* the account a deposit, withdrawal or transfer q is made on (its source)
SourceId(q) ==
  IF q.kind = "transfer" THEN q.body.fromAccountId ELSE q.body.accountId

\* the record of that account as the handler read it on receiving q
SourceRead(q) == IF q.kind = "transfer" THEN q.fromAccount ELSE q.account

\* the handler in slot h receives a request of one of the kinds
Receives(h, kinds) ==
  /\ Acts(h) /\ req[h].pc = "done"
  /\ req'[h].kind \in kinds \/ response'.kind \in kinds

\* the handler in slot h, holding a withdrawal or a transfer, takes the step
\* that checks ownership and funds
Decides(h) ==
  /\ Acts(h)
  /\ \/ req[h].kind \in {"deposit", "withdrawal"} /\ req[h].pc = "resolved"
     \/ req[h].kind = "transfer" /\ req[h].pc = "gotTo"

\* the funds gate, for the withdrawals and the transfers picked out by Applies:
\* the balance the gate goes by is the balance the source account has when
\* the request is received; a request for more than it, on a checking or
\* savings account the caller owns, is answered 400 "Insufficient funds" with
\* the store as it was, and a request for the balance or less is not
\* answered so.
FundsGate(h, applies) ==
  LET q == req[h]
      a == parseFloat(q.body.amount)[1]
      X == SourceId(q)
  IN  /\ Receives(h, {"withdrawal", "transfer"}) =>
           /\ UNCHANGED store
           /\ req'[h].pc # "done" =>
                SourceRead(req'[h]) = MapGet(accounts, SourceId(req'[h]))
      /\ ( /\ q.kind \in {"withdrawal", "transfer"} /\ Decides(h)
           /\ X \in DOMAIN accounts
           /\ accounts[X].userId = q.userId
           /\ accounts[X].type # "credit"
           /\ SourceRead(q) # undefined
           /\ applies ) =>
           IF a > SourceRead(q).balance
           THEN /\ Answers(h, q.kind)
                /\ response'.status = 400
                /\ response'.message = "Insufficient funds"
                /\ UNCHANGED store
           ELSE response'.message # "Insufficient funds"

DestinationFound(q) == q.kind = "transfer" => q.toAccount # undefined

\* C4, as claimed: the funds gate, for every withdrawal and every transfer.
C4_FundsGate_AsClaimed ==
  [][\A h \in Handlers : FundsGate(h, TRUE)]_vars

\* C4, amended: the funds gate, for every withdrawal and for every transfer
\* whose destination account the handler found.
C4_FundsGate ==
  [][\A h \in Handlers : FundsGate(h, DestinationFound(req[h]))]_vars

\* C4 witness: a withdrawal from a checking account the caller owns, for more
\* than its balance, has been answered 400 "Insufficient funds".
C4_Witness ==
  /\ response.kind = "withdrawal"
  /\ response.status = 400 /\ response.message = "Insufficient funds"
  /\ accounts[response.body.accountId].type = "checking"
  /\ accounts[response.body.accountId].userId = response.userId
  /\ accounts[response.body.accountId].balance
       < parseFloat(response.body.amount)[1]

\* C5: a withdrawal from a credit account the caller owns goes through
\* whatever the balance: the step that checks it takes exactly the amount off
\* the balance, and the withdrawal is answered 200 once its ledger entry is
\* stored.
C5_CreditWithdrawal ==
  [][\A h \in Handlers :
       LET q == req[h]
           a == parseFloat(q.body.amount)[1]
           X == q.body.accountId
       IN  ( /\ q.kind = "withdrawal" /\ Acts(h)
             /\ X \in DOMAIN accounts
             /\ accounts[X].userId = q.userId
             /\ accounts[X].type = "credit"
             /\ q.account # undefined ) =>
             /\ q.pc = "resolved" =>
                  /\ req'[h].pc = "updated"
                  /\ accounts' = [accounts EXCEPT ![X].balance = @ - a]
             /\ (q.pc = "updated"
                   /\ Cardinality(DOMAIN transactions') > Cardinality(DOMAIN transactions)) =>
                  /\ Answers(h, "withdrawal")
                  /\ response'.status = 200
    ]_vars

\* C5 witness: a withdrawal from a credit account has been answered 200 and
\* the balance of the account is negative.
C5_Witness ==
  /\ response.kind = "withdrawal" /\ response.status = 200
  /\ accounts[response.body.accountId].type = "credit"
  /\ accounts[response.body.accountId].balance < 0

\* C6: no transfer out of a credit account is answered "Insufficient funds".
C6_CreditTransfer ==
  (response.kind = "transfer" /\ response.message = "Insufficient funds") =>
    accounts[response.body.fromAccountId].type # "credit"

\* the ledger entries of transfers: the debit legs and the credit legs
TransferEntries ==
  {transactions[i] : i \in {j \in DOMAIN transactions :
                              transactions[j].type = "transfer"}}

DebitLegs == {e \in TransferEntries : e.amount < 0}

CreditLegs == {e \in TransferEntries : e.amount > 0}

\* c is a credit leg for the debit leg d
Pairs(d, c) ==
  /\ d.toAccountId # null
  /\ c.accountId = d.toAccountId[1]
  /\ c.toAccountId = null
  /\ c.amount + d.amount = 0
  /\ c.id > d.id

\* C7: every transfer entry is a debit leg (negative, naming its counterparty)
\* or a credit leg (positive, naming none); a transfer answered 200 returns
\* its debit leg, posted to the source with amount -a and counterparty the
\* destination, and the ledger holds a credit leg for it; and whenever no
\* handler is running the debit legs and the credit legs pair off one to one.
C7_Pairing ==
  /\ \A e \in TransferEntries :
       \/ e.amount < 0 /\ e.toAccountId # null
       \/ e.amount > 0 /\ e.toAccountId = null
  /\ (response.kind = "transfer" /\ response.status = 200) =>
       LET d == response.json
       IN  /\ d \in DebitLegs
           /\ d.accountId = response.body.fromAccountId
           /\ d.amount = 0 - parseFloat(response.body.amount)[1]
           /\ d.toAccountId = <<response.body.toAccountId>>
           /\ \E c \in CreditLegs : Pairs(d, c)
  /\ Quiescent =>
       \E f \in [DebitLegs -> CreditLegs] :
         /\ \A d \in DebitLegs : Pairs(d, f[d])
         /\ \A c \in CreditLegs : \E d \in DebitLegs : f[d] = c
         /\ \A d1, d2 \in DebitLegs : f[d1] = f[d2] => d1 = d2

\* the three kinds of request that move money
MoneyKinds == {"deposit", "withdrawal", "transfer"}

\* C8: a deposit, withdrawal or transfer on an account that exists and that
\* the caller does not own is answered 403 in the step that checks it,
\* whatever its amount and the balance, and no step of it changes the store.
C8_Ownership ==
  [][\A h \in Handlers :
       LET q == req[h]
           X == SourceId(q)
       IN  /\ Receives(h, MoneyKinds) => UNCHANGED store
           /\ (q.kind = "transfer" /\ Acts(h) /\ q.pc = "gotFrom") =>
                UNCHANGED store
           /\ ( /\ q.kind \in MoneyKinds /\ Decides(h)
                /\ X \in DOMAIN accounts
                /\ accounts[X].userId # q.userId ) =>
                /\ Answers(h, q.kind)
                /\ response'.status = 403
                /\ UNCHANGED store
    ]_vars

\* C8 witness: a transfer out of an existing account of another user, for more
\* than the account holds, has been answered 403.
C8_Witness ==
  /\ response.kind = "transfer" /\ response.status = 403
  /\ response.body.fromAccountId \in DOMAIN accounts
  /\ accounts[response.body.fromAccountId].userId # response.userId
  /\ accounts[response.body.fromAccountId].balance
       < parseFloat(response.body.amount)[1]

\* the sum of f over the set S
RECURSIVE SumOf(_, _)
SumOf(f, S) ==
  IF S = {} THEN 0
  ELSE LET x == CHOOSE y \in S : TRUE IN f[x] + SumOf(f, S \ {x})

\* the balance createUser gives an account of the type
Seed(type) ==
  CASE type = "checking" -> 2500 * Milli
    [] type = "savings" -> 10000 * Milli
    [] type = "credit" -> 0

\* the ledger entries posted to account X
LedgerOn(X) == {i \in DOMAIN transactions : transactions[i].accountId = X}

\* the deposits into X that have updated the balance and not yet recorded it
DepositsInFlight(X) ==
  {h \in Handlers : /\ req[h].kind = "deposit" /\ req[h].pc = "updated"
                    /\ req[h].body.accountId = X}

\* nothing but deposits has touched account X
OnlyDeposits(X) ==
  /\ \A i \in LedgerOn(X) : transactions[i].type = "deposit"
  /\ \A h \in Handlers :
       /\ ~(req[h].kind = "withdrawal" /\ req[h].pc = "updated"
              /\ req[h].body.accountId = X)
       /\ ~(req[h].kind = "transfer"
              /\ req[h].pc \in {"debited", "credited", "recorded"}
              /\ X \in {req[h].body.fromAccountId, req[h].body.toAccountId})

\* no createTransaction has thrown: every id issued is in the ledger
NoThrow == Cardinality(DOMAIN transactions) = transactionIdCounter - 1

\* C9: an account that only deposits have touched holds its opening balance
\* plus the amount of every one of them, those running at the same time
\* included: b + N*a after N deposits of a.
C9_NoLostUpdate ==
  \A X \in DOMAIN accounts :
    (NoThrow /\ OnlyDeposits(X)) =>
      accounts[X].balance =
        Seed(accounts[X].type)
          + SumOf([i \in DOMAIN transactions |-> transactions[i].amount],
                  LedgerOn(X))
          + SumOf([h \in Handlers |-> parseFloat(req[h].body.amount)[1]],
                  DepositsInFlight(X))

\* C9 witness: two deposits into one account, both of which read the same
\* balance b before either updated it, have both updated it, and it is b plus
\* the two amounts.
C9_Witness ==
  \E h1, h2 \in Handlers :
    /\ h1 # h2
    /\ req[h1].kind = "deposit" /\ req[h1].pc = "updated"
    /\ req[h2].kind = "deposit" /\ req[h2].pc = "updated"
    /\ req[h1].body.accountId = req[h2].body.accountId
    /\ req[h1].account.balance = req[h2].account.balance
    /\ accounts[req[h1].body.accountId].balance =
         req[h1].account.balance + parseFloat(req[h1].body.amount)[1]
           + parseFloat(req[h2].body.amount)[1]

\* C10: a deposit (a withdrawal) of a on account X changes the balance of X,
\* and of X alone, by +a (-a) in one step and the ledger not at all in that
\* step; it is answered 200 only after that step, in a step that appends
\* exactly one entry, which is the one it returns: posted to X for the
\* caller, of the type of the request, with amount +a (-a) and no
\* counterparty; no other step of it touches the balances or the ledger.
C10_SingleAccountOperation ==
  [][\A h \in Handlers :
       LET q == req[h]
           a == parseFloat(q.body.amount)[1]
           X == q.body.accountId
           signed == IF q.kind = "deposit" THEN a ELSE 0 - a
           e == response'.json
       IN  (q.kind \in {"deposit", "withdrawal"} /\ Acts(h)) =>
             /\ req'[h].pc = "updated" =>
                  /\ accounts' = [accounts EXCEPT ![X].balance = @ + signed]
                  /\ transactions' = transactions
             /\ req'[h].pc # "updated" => accounts' = accounts
             /\ IF response'.status = 200
                THEN /\ q.pc = "updated"
                     /\ e.id \notin DOMAIN transactions
                     /\ transactions' = MapSet(transactions, e.id, e)
                     /\ e.userId = q.userId
                     /\ e.accountId = X
                     /\ e.type = q.kind
                     /\ e.amount = signed
                     /\ e.toAccountId = null
                     /\ e.description = q.body.description
                ELSE transactions' = transactions
    ]_vars

\* C10 witness: a withdrawal has been answered 200 with its entry, after a
\* deposit whose entry is in the ledger.
C10_Witness ==
  /\ response.kind = "withdrawal" /\ response.status = 200
  /\ response.json.amount = 0 - parseFloat(response.body.amount)[1]
  /\ \E i \in DOMAIN transactions : transactions[i].type = "deposit"

\* the request schema of the kind accepts the body
Accepts(kind, body) ==
  CASE kind = "deposit" -> depositSchema(body)
    [] kind = "withdrawal" -> withdrawalSchema(body)
    [] kind = "transfer" -> transferSchema(body)

\* C13: a deposit, withdrawal or transfer with a body its schema accepts, on
\* an account id (for a transfer, a source account id) that is not in the
\* store, is answered 404 (not found), not the 403 of an account of another
\* user.
C13_AbsentAccount ==
  ( /\ response.kind \in MoneyKinds
    /\ Accepts(response.kind, response.body)
    /\ SourceId(response) \notin DOMAIN accounts ) =>
    response.status = 404

\* the request that the step of the handler in slot h receives: the locals
\* of the handler if it goes on, what it answered if it returned
Received(h) == IF req'[h].pc # "done" THEN req'[h] ELSE response'

\* the body is one of a transfer from an account to itself, or holds an
\* amount that is a number and not positive
InvalidRequest(kind, body) ==
  \/ kind = "transfer" /\ body.fromAccountId = body.toAccountId
  \/ ~isNaN(parseFloat(body.amount)) /\ parseFloat(body.amount)[1] <= 0

\* C14: a deposit, withdrawal or transfer whose amount is not positive, and a
\* transfer from an account to itself, is answered 400 "Validation error" in
\* the step that receives it: the handler returns there, having read no
\* account, and the store is as it was.
C14_InvalidRequest ==
  [][\A h \in Handlers :
       ( /\ Receives(h, MoneyKinds)
         /\ InvalidRequest(Received(h).kind, Received(h).body) ) =>
         /\ Answers(h, Received(h).kind)
         /\ response'.status = 400
         /\ response'.message = "Validation error"
         /\ req'[h] = NoRequest
         /\ UNCHANGED store
    ]_vars

\* C14 witness: a transfer of a positive amount from an account of the
\* caller to the same account has been answered 400 "Validation error".
C14_Witness ==
  /\ response.kind = "transfer"
  /\ response.status = 400 /\ response.message = "Validation error"
  /\ response.body.fromAccountId = response.body.toAccountId
  /\ response.body.fromAccountId \in DOMAIN accounts
  /\ accounts[response.body.fromAccountId].userId = response.userId
  /\ amountSchema(response.body.amount)
  /\ Len(response.body.description) >= 1

\* C15: a transfer out of an account the caller owns whose destination id
\* was not in the store when the handler looked it up is answered 404
\* "Destination account not found" in the step that checks it, and no step of
\* the transfer up to and including that one changes the store.
C15_MissingDestination ==
  [][\A h \in Handlers :
       LET q == req[h]
       IN  /\ Receives(h, {"transfer"}) => UNCHANGED store
           /\ (q.kind = "transfer" /\ Acts(h) /\ q.pc = "gotFrom") =>
                /\ UNCHANGED store
                /\ req'[h].toAccount = MapGet(accounts, q.body.toAccountId)
           /\ ( /\ q.kind = "transfer" /\ Decides(h)
                /\ q.fromAccount # undefined
                /\ q.fromAccount.userId = q.userId
                /\ q.toAccount = undefined ) =>
                /\ Answers(h, "transfer")
                /\ response'.status = 404
                /\ response'.message = "Destination account not found"
                /\ UNCHANGED store
    ]_vars

\* C15 witness: a transfer the source could have paid, to an id not in the
\* store, has been answered 404 with the source balance untouched.
C15_Witness ==
  /\ response.kind = "transfer" /\ response.status = 404
  /\ response.body.toAccountId \notin DOMAIN accounts
  /\ response.body.fromAccountId \in DOMAIN accounts
  /\ accounts[response.body.fromAccountId].userId = response.userId
  /\ accounts[response.body.fromAccountId].balance
       = Seed(accounts[response.body.fromAccountId].type)
  /\ accounts[response.body.fromAccountId].balance
       >= parseFloat(response.body.amount)[1]

\* the ids of the accounts of user u
AccountsOf(accts, u) == {a \in DOMAIN accts : accts[a].userId = u}

\* the account is of the type and holds the type's opening balance
Opens(account, u, type) ==
  /\ account.userId = u
  /\ account.type = type
  /\ account.balance = Seed(type)

\* C16: a registration answered 201 has, in the step that answers, stored
\* the user and exactly three new accounts of that user: checking with
\* 2500.00, savings with 10000.00 and credit with 0.00, in that order of ids;
\* in every state every user has exactly three accounts, one of each type;
\* and a listing of accounts returns the three accounts of the caller as
\* they are stored, checking, savings, credit, and nothing else.
C16_DefaultProvisioning ==
  [][/\ \A h \in Handlers :
          (Answers(h, "register") /\ response'.status = 201) =>
            LET u == response'.json.id
                n == accountIdCounter
            IN  /\ u \notin DOMAIN users /\ u \in DOMAIN users'
                /\ AccountsOf(accounts, u) = {}
                /\ DOMAIN accounts' = DOMAIN accounts \cup {n, n + 1, n + 2}
                /\ {n, n + 1, n + 2} \cap DOMAIN accounts = {}
                /\ Opens(accounts'[n], u, "checking")
                /\ Opens(accounts'[n + 1], u, "savings")
                /\ Opens(accounts'[n + 2], u, "credit")
                /\ \A a \in DOMAIN accounts : accounts'[a] = accounts[a]
     /\ \A u \in DOMAIN users' :
          /\ Cardinality(AccountsOf(accounts', u)) = 3
          /\ {accounts'[a].type : a \in AccountsOf(accounts', u)}
               = {"checking", "savings", "credit"}
     /\ \A h \in Handlers :
          Answers(h, "listAccounts") =>
            LET l == response'.json
                u == response'.userId
            IN  /\ response'.status = 200
                /\ Len(l) = 3
                /\ <<l[1].type, l[2].type, l[3].type>>
                     = <<"checking", "savings", "credit">>
                /\ l[1].id < l[2].id /\ l[2].id < l[3].id
                /\ \A i \in 1..3 : l[i].userId = u /\ l[i] = accounts'[l[i].id]
    ]_vars

\* C16 witness: with two users registered, the second user's accounts have
\* been listed, and the list starts at account 4.
C16_Witness ==
  /\ response.kind = "listAccounts" /\ response.status = 200
  /\ response.userId = 2
  /\ Cardinality(DOMAIN users) = 2
  /\ response.json[1].id = 4

\* the ids of a Map and its counter, over one step: the counter does not go
\* back, every new record has an id from the old counter up and below the new
\* one and carries it, and a step that issues an id leaves every record
\* that was there as it was
IssuesIds(m, counter, m2, counter2) ==
  /\ counter2 >= counter
  /\ \A id \in DOMAIN m : id < counter
  /\ \A id \in DOMAIN m2 : id < counter2 /\ m2[id].id = id
  /\ \A id \in (DOMAIN m2) \ (DOMAIN m) : id >= counter
  /\ DOMAIN m \subseteq DOMAIN m2
  /\ counter2 # counter => \A id \in DOMAIN m : m2[id] = m[id]

\* C20: users, accounts and transactions each get ids that grow with every
\* create, whatever the interleaving of the handlers: a new record's id is
\* above every id stored or issued before, so no two records share an id,
\* and a create never replaces a record that is there.
C20_SurrogateIds ==
  [][/\ IssuesIds(users, userIdCounter, users', userIdCounter')
     /\ IssuesIds(accounts, accountIdCounter, accounts', accountIdCounter')
     /\ IssuesIds(transactions, transactionIdCounter,
                  transactions', transactionIdCounter')
    ]_vars

\* C20 witness: two transfers running at the same time have each stored
\* their debit leg; the legs have ids 1 and 2.
C20_Witness ==
  \E h1, h2 \in Handlers :
    /\ req[h1].kind = "transfer" /\ req[h1].pc = "recorded"
    /\ req[h2].kind = "transfer" /\ req[h2].pc = "recorded"
    /\ req[h1].fromTransaction.id = 1
    /\ req[h2].fromTransaction.id = 2
    /\ DOMAIN transactions = {1, 2}

\* the ids of the ledger entries that the listing in response was asked for
Listed ==
  IF response.kind = "getTransactionsByUserId"
  THEN {i \in DOMAIN transactions : transactions[i].userId = response.userId}
  ELSE {i \in DOMAIN transactions :
          transactions[i].accountId = response.body.accountId}

\* C11: a listing of the ledger by user or by account holds the stored
\* entries of that user or account, every one of them once and nothing else,
\* and no entry in it is newer than the entry before it.
C11_Ordering ==
  response.kind \in {"getTransactionsByUserId", "getTransactionsByAccountId"} =>
    LET l == response.json
    IN  /\ {l[i].id : i \in 1..Len(l)} = Listed
        /\ Len(l) = Cardinality(Listed)
        /\ \A i \in 1..Len(l) : l[i] = transactions[l[i].id]
        /\ \A i \in 1..(Len(l) - 1) : l[i].date >= l[i + 1].date

\* C11 witness: a listing by user has returned two entries, the one stored
\* later and dated later first, while the ledger holds an entry of the other
\* user.
C11_Witness ==
  /\ response.kind = "getTransactionsByUserId"
  /\ Len(response.json) = 2
  /\ response.json[1].id > response.json[2].id
  /\ response.json[1].date > response.json[2].date
  /\ \E i \in DOMAIN transactions : transactions[i].userId # response.userId

\* C12: of two entries of a listing with the same timestamp, the one with the
\* higher id comes first.
C12_TieBreaking ==
  response.kind \in {"getTransactionsByUserId", "getTransactionsByAccountId"} =>
    LET l == response.json
    IN  \A i, j \in 1..Len(l) :
          (i < j /\ l[i].date = l[j].date) => l[i].id > l[j].id

\* C17: no two stored users have the same email.
C17_EmailUnique ==
  \A u1, u2 \in DOMAIN users :
    users[u1].email = users[u2].email => u1 = u2

\* some stored user has the email
EmailTaken(email) == \E u \in DOMAIN users : users[u].email = email

\* C18: a registration whose email belongs to a stored user when the request
\* is received is answered 400 "User with this email already exists", and no
\* step of it changes the store: no user, no account, no counter.
C18_DuplicateRegistration ==
  [][\A h \in Handlers :
       LET q == req[h]
       IN  /\ Receives(h, {"register"}) =>
                /\ UNCHANGED store
                /\ req'[h].pc = "lookedUp"
                /\ req'[h].existingUser # undefined
                     <=> EmailTaken(req'[h].body.email)
           /\ ( /\ q.kind = "register" /\ Acts(h)
                /\ q.existingUser # undefined ) =>
                /\ Answers(h, "register")
                /\ response'.status = 400
                /\ response'.message = "User with this email already exists"
                /\ UNCHANGED store
    ]_vars

\* C18 witness: a second registration with the email of the one stored user
\* has been answered 400, and there is still one user with three accounts.
C18_Witness ==
  /\ response.kind = "register" /\ response.status = 400
  /\ EmailTaken(response.body.email)
  /\ Cardinality(DOMAIN users) = 1 /\ userIdCounter = 2
  /\ Cardinality(DOMAIN accounts) = 3 /\ accountIdCounter = 4

\* C19: no two stored accounts have the same account number.
C19_AccountNumberUnique ==
  \A a1, a2 \in DOMAIN accounts :
    accounts[a1].accountNumber = accounts[a2].accountNumber => a1 = a2

\* C21: every entry of the ledger is in the ledger after every step, under
\* the same id and with every field as it was, and getTransactionById
\* returns for its id what it returned before the step.
C21_AppendOnly ==
  [][\A id \in DOMAIN transactions :
       /\ id \in DOMAIN transactions'
       /\ transactions'[id] = transactions[id]
       /\ getTransactionById(id)' = getTransactionById(id)
       /\ getTransactionById(id)' = transactions[id]
    ]_vars

\* C21 witness: the ledger holds the entries 1, 2 and 3 after a later request
\* has tried to append to it and has been answered 500.
C21_Witness ==
  /\ DOMAIN transactions = {1, 2, 3}
  /\ \A id \in 1..3 : getTransactionById(id).id = id
  /\ transactionIdCounter > 4
  /\ response.status = 500

\* the effect on the balance of account X of the steps the handler in slot h
\* has taken and not yet entered in the ledger
Pending(h, X) ==
  LET q == req[h]
      a == parseFloat(q.body.amount)[1]
  IN  CASE q.kind = "deposit" /\ q.pc = "updated" /\ q.body.accountId = X -> a
        [] q.kind = "withdrawal" /\ q.pc = "updated" /\ q.body.accountId = X -> -a
        [] q.kind = "transfer" /\ q.pc \in {"debited", "credited"}
             /\ q.body.fromAccountId = X ->
             IF q.pc = "credited" /\ q.body.toAccountId = X THEN 0 ELSE -a
        [] q.kind = "transfer" /\ q.pc \in {"credited", "recorded"}
             /\ q.body.toAccountId = X -> a
        [] OTHER -> 0

\* the sum of the amounts of the ledger entries posted to account X
Posted(X) == SumOf([i \in LedgerOn(X) |-> transactions[i].amount], LedgerOn(X))

\* C26: a step that appends a ledger entry is a step of a handler that has
\* applied the balance change the entry records in an earlier step (a deposit
\* or withdrawal after its update, a transfer after its debit and its credit),
\* it appends that one entry and changes no balance; and as long as no append
\* has thrown, every balance is its opening balance plus the entries posted
\* to the account plus the changes applied and not yet entered, so that no
\* entry is in the ledger without its effect in the balance.
C26_LedgerAfterBalance ==
  /\ [][\A h \in Handlers :
          LET q == req[h]
              a == parseFloat(q.body.amount)[1]
              i == transactionIdCounter
          IN  (Acts(h) /\ transactions' # transactions) =>
                /\ q.kind \in MoneyKinds
                /\ transactions' = MapSet(transactions, i, transactions'[i])
                /\ i \notin DOMAIN transactions
                /\ accounts' = accounts
                /\ q.kind = "deposit" =>
                     /\ q.pc = "updated"
                     /\ transactions'[i].accountId = q.body.accountId
                     /\ transactions'[i].amount = a
                /\ q.kind = "withdrawal" =>
                     /\ q.pc = "updated"
                     /\ transactions'[i].accountId = q.body.accountId
                     /\ transactions'[i].amount = -a
                /\ q.kind = "transfer" =>
                     \/ /\ q.pc = "credited"
                        /\ transactions'[i].accountId = q.body.fromAccountId
                        /\ transactions'[i].amount = -a
                     \/ /\ q.pc = "recorded"
                        /\ transactions'[i].accountId = q.body.toAccountId
                        /\ transactions'[i].amount = a
       ]_vars
  /\ [](NoThrow =>
         \A X \in DOMAIN accounts :
           accounts[X].balance =
             Seed(accounts[X].type) + Posted(X)
               + SumOf([h \in Handlers |-> Pending(h, X)], Handlers))

\* C26 witness: a transfer has debited its source, credited its destination
\* and entered the debit in the ledger, and not yet the credit.
C26_Witness ==
  \E h \in Handlers :
    /\ req[h].kind = "transfer" /\ req[h].pc = "recorded"
    /\ req[h].fromTransaction.id \in DOMAIN transactions
    /\ Posted(req[h].body.fromAccountId) = -parseFloat(req[h].body.amount)[1]
    /\ Posted(req[h].body.toAccountId) = 0
    /\ accounts[req[h].body.toAccountId].balance =
         Seed(accounts[req[h].body.toAccountId].type)
           + parseFloat(req[h].body.amount)[1]

\* C28: no checking or savings account has a negative balance.
C28_NoOverdraft ==
  \A X \in DOMAIN accounts :
    accounts[X].type \in {"checking", "savings"} => accounts[X].balance >= 0

\* C29: when no request is in flight, every balance is the opening balance of
\* the account plus the sum of the signed amounts of the ledger entries
\* posted to it.
C29_LedgerBalanceConsistency ==
  Quiescent =>
    \A X \in DOMAIN accounts :
      accounts[X].balance = Seed(accounts[X].type) + Posted(X)

\* the transfer q goes from an account of its caller to the account of
\* another user
CrossUser(q) ==
  /\ q.kind = "transfer"
  /\ q.fromAccount # undefined /\ q.fromAccount.userId = q.userId
  /\ q.toAccount # undefined /\ q.toAccount.userId # q.userId

\* x is an element of the sequence s
InSeq(x, s) == \E k \in 1..Len(s) : s[k] = x

\* the ledger has no room for another entry: createTransaction throws
LedgerFull == Cardinality(DOMAIN transactions) >= MaxTransactions

\* C25: a transfer from an account of the caller to the account of another
\* user passes the funds gate as any transfer does (refused with 400 when
\* the amount exceeds the balance read, carried on otherwise), debits the
\* source and credits the destination by the amount, stores a debit entry
\* under the caller's id and a credit entry under the id of the owner of the
\* destination, and answers 200 with the debit entry; the credit entry is
\* then in the owner's getTransactionsByUserId and not in the caller's, the
\* debit entry in the caller's and not in the owner's.
C25_CrossUserTransfer ==
  [][\A h \in Handlers : \A caller, owner \in DOMAIN users :
       LET q == req[h]
           a == parseFloat(q.body.amount)[1]
           S == q.fromAccount
           D == q.toAccount
           i == transactionIdCounter
       IN  ( /\ Acts(h) /\ CrossUser(q)
             /\ caller = q.userId /\ owner = D.userId ) =>
             /\ (q.pc = "gotTo" /\ S.type # "credit") =>
                  IF a > S.balance
                  THEN /\ Answers(h, "transfer")
                       /\ response'.status = 400
                       /\ response'.message = "Insufficient funds"
                       /\ UNCHANGED store
                  ELSE /\ req'[h].pc = "debited"
                       /\ accounts' = [accounts EXCEPT ![S.id].balance = @ - a]
             /\ q.pc = "debited" =>
                  /\ req'[h].pc = "credited"
                  /\ accounts' = [accounts EXCEPT ![D.id].balance = @ + a]
             /\ (q.pc = "credited" /\ ~LedgerFull) =>
                  /\ req'[h].pc = "recorded"
                  /\ req'[h].fromTransaction = transactions'[i]
                  /\ transactions'[i].userId = caller
                  /\ transactions'[i].accountId = S.id
                  /\ transactions'[i].toAccountId = <<D.id>>
                  /\ transactions'[i].amount = -a
             /\ (q.pc = "recorded" /\ ~LedgerFull) =>
                  /\ transactions'[i].userId = owner
                  /\ transactions'[i].accountId = D.id
                  /\ transactions'[i].amount = a
                  /\ Answers(h, "transfer")
                  /\ response'.status = 200
                  /\ response'.json = q.fromTransaction
                  /\ response'.json.userId = caller
                  /\ InSeq(transactions'[i], getTransactionsByUserId(owner)')
                  /\ ~InSeq(transactions'[i], getTransactionsByUserId(caller)')
                  /\ InSeq(q.fromTransaction, getTransactionsByUserId(caller)')
                  /\ ~InSeq(q.fromTransaction, getTransactionsByUserId(owner)')
    ]_vars

\* C25 witness: a transfer to the account of another user has been answered
\* 200 with the debit entry, and the credit entry is in the listing of the
\* owner of the destination.
C25_Witness ==
  /\ response.kind = "transfer" /\ response.status = 200
  /\ accounts[response.body.fromAccountId].userId = response.userId
  /\ accounts[response.body.toAccountId].userId # response.userId
  /\ response.json.userId = response.userId
  /\ \E i \in DOMAIN transactions :
       /\ transactions[i].accountId = response.body.toAccountId
       /\ transactions[i].userId # response.userId
       /\ InSeq(transactions[i],
                getTransactionsByUserId(accounts[response.body.toAccountId].userId))

C30_Authenticate ==
  [][\A h \in Handlers :
       LET q == req[h]
       IN  /\ Receives(h, {"login"}) =>
                /\ UNCHANGED store
                /\ req'[h].pc # "done" =>
                     \A u \in DOMAIN users :
                       req'[h].existingUser = users[u]
                         <=> /\ users[u].email = req'[h].body.email
                             /\ users[u].password = req'[h].body.password
           /\ (q.kind = "login" /\ Acts(h) /\ q.pc = "validated") =>
                /\ Answers(h, "login")
                /\ UNCHANGED store
                /\ IF q.existingUser = undefined
                   THEN /\ response'.status = 401
                        /\ response'.message = "Invalid email or password"
                   ELSE /\ response'.status = 200
                        /\ response'.json = userWithoutPassword(q.existingUser)
    ]_vars

\* the stored accounts that a step removes or changes
Changed ==
  {X \in DOMAIN accounts : X \notin DOMAIN accounts' \/ accounts'[X] # accounts[X]}

\* C22: every stored account is stored after every step, with every field
\* but the balance as it was; a step changes at most one stored account, and
\* changes it as updateAccountBalance does for its id; a handler changes one
\* only in a step that calls updateAccountBalance; updateAccountBalance
\* called with the id of an account adds the amount to the balance of that
\* account and returns the record stored, and called with an id of no
\* account returns undefined and leaves every account as it was.
C22_BalanceFrame ==
  [][/\ \A X \in DOMAIN accounts :
          /\ X \in DOMAIN accounts'
          /\ accounts'[X] = [accounts[X] EXCEPT !.balance = accounts'[X].balance]
     /\ Cardinality(Changed) <= 1
     /\ \A X \in Changed :
          /\ accounts' = updateAccountBalance(accounts, X,
                           accounts'[X].balance - accounts[X].balance)
          /\ \/ /\ response'.kind = "updateAccountBalance"
                /\ response'.body.accountId = X
             \/ \E h \in Handlers :
                  /\ Acts(h)
                  /\ req[h].kind \in MoneyKinds
                  /\ req'[h].pc \in {"updated", "debited", "credited"}
                  /\ X = IF req'[h].pc = "credited"
                           THEN req[h].body.toAccountId ELSE SourceId(req[h])
     /\ response'.kind = "updateAccountBalance" =>
          LET id == response'.body.accountId
              amount == response'.body.amount
          IN  IF id \in DOMAIN accounts
              THEN /\ accounts' = [accounts EXCEPT ![id].balance = @ + amount]
                   /\ response'.json = accounts'[id]
              ELSE /\ accounts' = accounts
                   /\ response'.json = undefined
    ]_vars

\* C22 witness: updateAccountBalance has been called with an id under which
\* no account is stored and has returned undefined, after a call that changed
\* the balance of account 1; accounts 2 and 3 hold their opening balances.
C22_Witness ==
  /\ response.kind = "updateAccountBalance"
  /\ response.body.accountId \notin DOMAIN accounts
  /\ response.json = undefined
  /\ DOMAIN accounts = {1, 2, 3}
  /\ accounts[1].balance = 3000 * Milli
  /\ accounts[2].balance = Seed("savings")
  /\ accounts[3].balance = Seed("credit")

\* a cent, in the unit balances are counted in
Cent == Milli \div 100

\* C27: every balance is a whole number of cents.
C27_TwoDecimalBalances ==
  \A X \in DOMAIN accounts : accounts[X].balance % Cent = 0

\* C23: a deposit, a withdrawal or a transfer that a handler holds is
\* answered, and the handler returns, whatever the other handler holds and
\* however their steps interleave: two transfers in opposite directions
\* between two accounts both come to their end.
C23_NoDeadlock ==
  \A h \in Handlers :
    (req[h].kind \in MoneyKinds) ~> (req[h].pc = "done")

\* C23 witness: the transfer from account 1 to account 2 and the transfer
\* from account 2 to account 1 have both debited their source, and neither
\* has credited its destination.
C23_Witness ==
  /\ req[1].kind = "transfer" /\ req[1].pc = "debited"
  /\ req[2].kind = "transfer" /\ req[2].pc = "debited"
  /\ req[1].body.fromAccountId = 1 /\ req[1].body.toAccountId = 2
  /\ req[2].body.fromAccountId = 2 /\ req[2].body.toAccountId = 1

====
